---- MODULE Spec2Model ----
(***************************************************************************)
(* Model of the metrics aggregation engine of the AISSA track record       *)
(* dashboard (src/app.py): load_year_data and calculate_metrics.           *)
(*                                                                         *)
(* JSON values are modelled as Python sees them after json.load:           *)
(*   a mapping   is a function over its keys (a TLA+ record),              *)
(*   a sequence  is a TLA+ sequence,                                       *)
(*   a text      is a sequence of one-character strings.                   *)
(* Where the code meets values of more than one Python type (the loaded    *)
(* document, the events section, a participants value) the value carries   *)
(* its type in a tag: [t |-> "map" | "list" | "str" | "int" | "none", v].  *)
(***************************************************************************)
EXTENDS Integers, Sequences, FiniteSets, TLC

----------------------------------------------------------------------------
(* Bounds of the model                                                     *)

MaxLen == 3          \* longest enumerated participants text
MaxCourses == 2      \* most courses in an enumerated list of several courses
MaxEvents == 2       \* most events in an enumerated list of several events
MaxItems == 1        \* most entries in an enumerated counted section
MaxAgain == 1        \* most calls of calculate_metrics after the first

----------------------------------------------------------------------------
(* Python values                                                           *)

None == [t |-> "none"]
PyMap(m) == [t |-> "map", v |-> m]
PyList(s) == [t |-> "list", v |-> s]
PyStr(s) == [t |-> "str", v |-> s]
PyInt(n) == [t |-> "int", v |-> n]

EmptyMap == [k \in {} |-> 0]

Digits == {"0", "1", "2", "3", "4", "5", "6", "7", "8", "9"}

DigitVal(c) ==
    CASE c = "0" -> 0 [] c = "1" -> 1 [] c = "2" -> 2 [] c = "3" -> 3
      [] c = "4" -> 4 [] c = "5" -> 5 [] c = "6" -> 6 [] c = "7" -> 7
      [] c = "8" -> 8 [] c = "9" -> 9

DigitChar(d) ==
    CASE d = 0 -> "0" [] d = 1 -> "1" [] d = 2 -> "2" [] d = 3 -> "3"
      [] d = 4 -> "4" [] d = 5 -> "5" [] d = 6 -> "6" [] d = 7 -> "7"
      [] d = 8 -> "8" [] d = 9 -> "9"

\* int(s) for a text s made of decimal digits
RECURSIVE PyIntOfStr(_)
PyIntOfStr(s) ==
    IF Len(s) = 0 THEN 0
    ELSE 10 * PyIntOfStr(SubSeq(s, 1, Len(s) - 1)) + DigitVal(s[Len(s)])

\* str(n) for a non-negative integer n
RECURSIVE PyStrOfInt(_)
PyStrOfInt(n) ==
    IF n < 10 THEN <<DigitChar(n)>>
    ELSE Append(PyStrOfInt(n \div 10), DigitChar(n % 10))

\* str(x): a text is returned as it is, an integer is written in decimal
PyStrOf(x) == IF x.t = "str" THEN x.v ELSE PyStrOfInt(x.v)

\* needle in hay, for two texts
PyStrContains(needle, hay) ==
    \E i \in 1..(Len(hay) - Len(needle) + 1) :
        SubSeq(hay, i, i + Len(needle) - 1) = needle

\* not x
PyFalsy(x) ==
    \/ x.t = "none"
    \/ x.t = "map" /\ DOMAIN x.v = {}
    \/ x.t = "list" /\ Len(x.v) = 0

\* DigitRunEnd with a \d that takes one digit only
DigitRunEnd_OneDigit(s, i) ==
    IF i <= Len(s) /\ s[i] \in Digits THEN i ELSE i - 1

\* end of the longest run of digits of s that starts at position i (i - 1 when
\* s[i] is no digit): the greedy \d+
RECURSIVE DigitRunEnd(_, _)
DigitRunEnd(s, i) ==
    IF i <= Len(s) /\ s[i] \in Digits THEN DigitRunEnd(s, i + 1) ELSE i - 1

\* re.findall(r'~?(\d+)', s) scanning from position i: the captured groups of
\* the successive non-overlapping matches, leftmost first
RECURSIVE ReFindAll(_, _)
ReFindAll(s, i) ==
    IF i > Len(s) THEN <<>>
    ELSE LET d == IF s[i] = "~" /\ i < Len(s) /\ s[i + 1] \in Digits
                  THEN i + 1 ELSE i
             e == DigitRunEnd(s, d)
         IN  IF e >= d
             THEN <<SubSeq(s, d, e)>> \o ReFindAll(s, e + 1)
             ELSE ReFindAll(s, i + 1)

----------------------------------------------------------------------------
(* The backing store: one entry per year identifier                        *)

YearIds == {"2023", "2024", "2025"}

\* data/{year}.json does not exist
Absent == [kind |-> "absent"]
\* data/{year}.json exists and is not valid JSON
Corrupt == [kind |-> "corrupt"]
\* data/{year}.json exists and parses to the Python value d
Parsed(d) == [kind |-> "ok", doc |-> d]

\* LoadYearData without the except clause for FileNotFoundError
LoadYearData_NotFoundUncaught(st, y) ==
    CASE st[y].kind = "ok" ->
            [err |-> "none", ret |-> st[y].doc, msgs |-> <<>>]
      [] st[y].kind = "absent" ->
            [err |-> "FileNotFoundError", ret |-> None, msgs |-> <<>>]
      [] st[y].kind = "corrupt" ->
            [err |-> "none", ret |-> None,
             msgs |-> <<[kind |-> "parse error", year |-> y]>>]

\* LoadYearData without the except clause for json.JSONDecodeError
LoadYearData_ParseUncaught(st, y) ==
    CASE st[y].kind = "ok" ->
            [err |-> "none", ret |-> st[y].doc, msgs |-> <<>>]
      [] st[y].kind = "absent" ->
            [err |-> "none", ret |-> None,
             msgs |-> <<[kind |-> "not found", year |-> y]>>]
      [] st[y].kind = "corrupt" ->
            [err |-> "JSONDecodeError", ret |-> None, msgs |-> <<>>]

\* LoadYearData that returns an empty mapping, not None, when the document
\* is not valid JSON
LoadYearData_EmptyOnCorrupt(st, y) ==
    CASE st[y].kind = "ok" ->
            [err |-> "none", ret |-> st[y].doc, msgs |-> <<>>]
      [] st[y].kind = "absent" ->
            [err |-> "none", ret |-> None,
             msgs |-> <<[kind |-> "not found", year |-> y]>>]
      [] st[y].kind = "corrupt" ->
            [err |-> "none", ret |-> PyMap(EmptyMap),
             msgs |-> <<[kind |-> "parse error", year |-> y]>>]

\* LoadYearData that reports a document that is not valid JSON as not found
LoadYearData_OneMessage(st, y) ==
    CASE st[y].kind = "ok" ->
            [err |-> "none", ret |-> st[y].doc, msgs |-> <<>>]
      [] st[y].kind = "absent" ->
            [err |-> "none", ret |-> None,
             msgs |-> <<[kind |-> "not found", year |-> y]>>]
      [] st[y].kind = "corrupt" ->
            [err |-> "none", ret |-> None,
             msgs |-> <<[kind |-> "not found", year |-> y]>>]

\* LoadYearData that gives no message when the document is not valid JSON
LoadYearData_SilentCorrupt(st, y) ==
    CASE st[y].kind = "ok" ->
            [err |-> "none", ret |-> st[y].doc, msgs |-> <<>>]
      [] st[y].kind = "absent" ->
            [err |-> "none", ret |-> None,
             msgs |-> <<[kind |-> "not found", year |-> y]>>]
      [] st[y].kind = "corrupt" ->
            [err |-> "none", ret |-> None, msgs |-> <<>>]

\* load_year_data(year): the exception that leaves it ("none": the two it
\* meets are caught), the value returned and the messages given to st.error
LoadYearData(st, y) ==
    CASE st[y].kind = "ok" ->
            [err |-> "none", ret |-> st[y].doc, msgs |-> <<>>]
      [] st[y].kind = "absent" ->
            [err |-> "none", ret |-> None,
             msgs |-> <<[kind |-> "not found", year |-> y]>>]
      [] st[y].kind = "corrupt" ->
            [err |-> "none", ret |-> None,
             msgs |-> <<[kind |-> "parse error", year |-> y]>>]

----------------------------------------------------------------------------
(* calculate_metrics: the per-item rules                                   *)

ZeroTotals ==
    [total_courses |-> 0, total_participants |-> 0,
     total_research_papers |-> 0, total_workshops_events |-> 0,
     total_university_groups |-> 0, total_individual_impacts |-> 0]

\* data.get(key, default) on a mapping
PyGet(m, key, default) == IF key \in DOMAIN m THEN m[key] ELSE default

\* len(x) of a list or of a mapping
PyLen(x) == IF x.t = "list" THEN Len(x.v) ELSE Cardinality(DOMAIN x.v)

\* key in x: a key of the mapping, or an element of the list (the elements of
\* an events list are mappings, none of which equals a string)
PyIn(key, x) == IF x.t = "map" THEN key \in DOMAIN x.v ELSE FALSE

\* "participants" in key, the substring test the 2023 loop makes when it walks
\* the keys of an events mapping
ParticipantsInKey(key) == key = "participants"

\* CompletionParticipants with a test of the value of total_completed in
\* place of the test of its presence
CompletionParticipants_Truthy(course) ==
    IF "completion" \in DOMAIN course
    THEN LET completion == course["completion"]
         IN  IF "total_completed" \in DOMAIN completion
                /\ completion["total_completed"] # 0
             THEN completion["total_completed"]
             ELSE IF "technical_completed" \in DOMAIN completion
                     /\ "governance_completed" \in DOMAIN completion
                  THEN completion["technical_completed"]
                       + completion["governance_completed"]
                  ELSE 0
    ELSE 0

\* what lines 250-255 add to total_participants for one course
CompletionParticipants(course) ==
    IF "completion" \in DOMAIN course
    THEN LET completion == course["completion"]
         IN  IF "total_completed" \in DOMAIN completion
             THEN completion["total_completed"]
             ELSE IF "technical_completed" \in DOMAIN completion
                     /\ "governance_completed" \in DOMAIN completion
                  THEN completion["technical_completed"]
                       + completion["governance_completed"]
                  ELSE 0
    ELSE 0

\* what lines 258-259 add to total_participants for one course
MetricsParticipants(course) ==
    IF "metrics" \in DOMAIN course /\ "completed" \in DOMAIN course["metrics"]
    THEN course["metrics"]["completed"]
    ELSE 0

\* CourseParticipants that reads metrics only when completion is missing
CourseParticipants_Exclusive(course) ==
    IF "completion" \in DOMAIN course
    THEN CompletionParticipants(course)
    ELSE MetricsParticipants(course)

\* the body of the loop over courses, lines 248-259
CourseParticipants(course) ==
    CompletionParticipants(course) + MetricsParticipants(course)

\* lines 265-272: workshops, talks and notable_meetups of the events value
SubsectionCount(events) ==
    (IF PyIn("workshops", events) THEN Len(events.v["workshops"]) ELSE 0)
    + (IF PyIn("talks", events) THEN Len(events.v["talks"]) ELSE 0)
    + (IF PyIn("notable_meetups", events)
       THEN Len(events.v["notable_meetups"]) ELSE 0)

\* AllEventsCount that takes 2025 for the year of the flat event list
AllEventsCount_WrongYear(y, d) ==
    IF y = "2025"
    THEN PyLen(PyGet(d, "events", PyList(<<>>)))
    ELSE 0

\* AllEventsCount that counts all events of a year whichever the year is
AllEventsCount_AnyYear(y, d) == PyLen(PyGet(d, "events", PyList(<<>>)))

\* lines 275-277: for 2023 every event counts
AllEventsCount(y, d) ==
    IF y = "2023"
    THEN PyLen(PyGet(d, "events", PyList(<<>>)))
    ELSE 0

\* RetreatParticipants with the text compared with "24" for equality
RetreatParticipants_Equals(y, events) ==
    IF y = "2024"
    THEN IF PyIn("retreat", events)
         THEN LET retreat == events.v["retreat"]
              IN  IF "participants" \in DOMAIN retreat
                     /\ PyStrOf(retreat["participants"]) = <<"2", "4">>
                  THEN 24 ELSE 0
         ELSE 0
    ELSE 0

\* RetreatParticipants without the test of the year
RetreatParticipants_AnyYear(y, events) ==
    IF PyIn("retreat", events)
    THEN LET retreat == events.v["retreat"]
         IN  IF "participants" \in DOMAIN retreat
                /\ PyStrContains(<<"2", "4">>, PyStrOf(retreat["participants"]))
             THEN 24 ELSE 0
    ELSE 0

\* lines 280-285: the retreat of 2024
RetreatParticipants(y, events) ==
    IF y = "2024"
    THEN IF PyIn("retreat", events)
         THEN LET retreat == events.v["retreat"]
              IN  IF "participants" \in DOMAIN retreat
                     /\ PyStrContains(<<"2", "4">>,
                                      PyStrOf(retreat["participants"]))
                  THEN 24 ELSE 0
         ELSE 0
    ELSE 0

\* the keys of a mapping as a sequence, the order in which a for loop over the
\* mapping meets them
RECURSIVE KeySeq(_)
KeySeq(S) ==
    IF S = {} THEN <<>>
    ELSE LET k == CHOOSE x \in S : TRUE IN <<k>> \o KeySeq(S \ {k})

\* the items a for loop over x meets: the elements of a list, the keys of a
\* mapping
PyIter(x) ==
    IF x.t = "list"
    THEN [i \in 1..Len(x.v) |-> [t |-> "map", v |-> x.v[i]]]
    ELSE LET ks == KeySeq(DOMAIN x.v)
         IN  [i \in 1..Len(ks) |-> [t |-> "key", v |-> ks[i]]]

\* FlatEventParticipants without the test "participants" in event
FlatEventParticipants_Unguarded(event) ==
    IF event.t = "key"
    THEN [err |-> "TypeError", add |-> 0]
    ELSE IF "participants" \notin DOMAIN event.v
         THEN [err |-> "KeyError", add |-> 0]
         ELSE LET participants_str == event.v["participants"]
              IN  IF participants_str.t # "str"
                  THEN [err |-> "TypeError", add |-> 0]
                  ELSE LET numbers == ReFindAll(participants_str.v, 1)
                       IN  IF Len(numbers) > 0
                           THEN [err |-> "none",
                                 add |-> PyIntOfStr(numbers[1])]
                           ELSE [err |-> "none", add |-> 0]

\* the body of the loop over the 2023 events, lines 291-297, for one item:
\* the exception it raises ("none" when it raises none) and what it adds to
\* total_participants
FlatEventParticipants(event) ==
    IF event.t = "key"
    THEN IF ParticipantsInKey(event.v)
         THEN [err |-> "TypeError", add |-> 0]
         ELSE [err |-> "none", add |-> 0]
    ELSE IF "participants" \in DOMAIN event.v
         THEN LET participants_str == event.v["participants"]
              IN  IF participants_str.t # "str"
                  THEN [err |-> "TypeError", add |-> 0]
                  ELSE LET numbers == ReFindAll(participants_str.v, 1)
                       IN  IF Len(numbers) > 0
                           THEN [err |-> "none",
                                 add |-> PyIntOfStr(numbers[1])]
                           ELSE [err |-> "none", add |-> 0]
         ELSE [err |-> "none", add |-> 0]

----------------------------------------------------------------------------
(* The documents the store is drawn from                                   *)

\* the sequences over S of length at most n
SeqsUpTo(S, n) == UNION {[1..k -> S] : k \in 0..n}

\* the mapping m cut down to the keys K
Restrict(m, K) == [k \in K |-> m[k]]

Chars == {"~", "2", "4", "a"}

\* participants texts of the specification and of the tests
SampleTexts ==
    { <<"~", "3", "0">>, <<"~", "1", "5">>, <<"~", "4", "0">>,
      <<"2", "4", " ", "a", "t", "t", "e", "n", "d", "e", "e", "s">>,
      <<"t", "w", "e", "n", "t", "y", "-", "f", "o", "u", "r", " ",
        "p", "a", "r", "t", "i", "c", "i", "p", "a", "n", "t", "s">>,
      <<"0", "0", "7">>, <<"1", "2", "4", "0">> }

Texts == SeqsUpTo(Chars, MaxLen) \cup SampleTexts

\* a participants value: a text, or a number
ParticipantsValues == {PyStr(s) : s \in Texts} \cup {PyInt(24), PyInt(30)}

\* the entries of university_groups, research, individual_impacts, workshops,
\* talks and notable_meetups
Entries == {EmptyMap, [name |-> "n"]}

Completions ==
    { Restrict([total_completed |-> a, technical_completed |-> 20,
                governance_completed |-> 54], K) :
        a \in {0, 15},
        K \in SUBSET {"total_completed", "technical_completed",
                      "governance_completed"} }

MetricsRecords == {EmptyMap, [completed |-> 10]}

Courses ==
    { Restrict([completion |-> c, metrics |-> m], K) :
        c \in Completions, m \in MetricsRecords,
        K \in SUBSET {"completion", "metrics"} }

\* the documents of the end-to-end scenario of the specification
SpecDoc2023 ==
    [events |-> PyList(<< [participants |-> PyStr(<<"~", "3", "0">>)],
                          [participants |-> PyStr(<<"~", "1", "5">>)] >>)]

SpecDoc2024 ==
    [courses |-> << [completion |-> [technical_completed |-> 20,
                                     governance_completed |-> 54]] >>,
     events |-> PyMap([workshops |-> <<EmptyMap>>,
                       retreat |-> [participants |->
                           PyStr(<<"2", "4", " ", "a", "t", "t", "e", "n",
                                   "d", "e", "e", "s">>)]])]

\* the documents of the tests (test_app.py, the three setUp methods)
TestDoc ==
    [courses |-> << [metrics |-> [completed |-> 10, accepted |-> 20]] >>,
     university_groups |-> << [name |-> "n"] >>,
     research |-> << [name |-> "n"] >>,
     individual_impacts |-> << [name |-> "n"] >>,
     events |-> PyMap([workshops |-> << [name |-> "n"] >>,
                       talks |-> << [name |-> "n"] >>])]

TestDoc2023 ==
    [courses |-> << [metrics |-> [completed |-> 10],
                     completion |-> [total_completed |-> 15]] >>,
     university_groups |-> << [name |-> "n"], [name |-> "n"] >>,
     research |-> << [name |-> "n"] >>,
     individual_impacts |-> << [name |-> "n"] >>,
     events |-> PyList(<< [participants |-> PyStr(<<"~", "3", "0">>)],
                          [participants |-> PyStr(<<"~", "1", "5">>)] >>)]

TestDoc2024 ==
    [courses |-> << [completion |-> [technical_completed |-> 20,
                                     governance_completed |-> 54]] >>,
     university_groups |-> << [name |-> "n"] >>,
     research |-> << [name |-> "n"], [name |-> "n"] >>,
     individual_impacts |-> << [name |-> "n"], [name |-> "n"] >>,
     events |-> PyMap([workshops |-> << [name |-> "n"] >>,
                       talks |-> << [name |-> "n"] >>,
                       retreat |-> [participants |-> PyStr(<<"2", "4">>)]])]

\* documents with a courses section only: one course of any shape, or
\* several courses
CourseDocs ==
    {[courses |-> <<c>>] : c \in Courses}
    \cup {[courses |-> cs] :
            cs \in SeqsUpTo({[completion |-> [total_completed |-> 15],
                              metrics |-> [completed |-> 10]],
                             [completion |-> [technical_completed |-> 20]],
                             EmptyMap}, MaxCourses)}

\* documents with the three counted sections only
CountedDocs ==
    { Restrict([university_groups |-> u, research |-> r,
                individual_impacts |-> i], K) :
        u \in SeqsUpTo(Entries, MaxItems),
        r \in SeqsUpTo({EmptyMap}, MaxItems),
        i \in SeqsUpTo({EmptyMap}, MaxItems),
        K \in SUBSET {"university_groups", "research", "individual_impacts"} }

\* the events of a flat list
FlatEvents == {EmptyMap} \cup {[participants |-> p] : p \in ParticipantsValues}

\* documents whose events section is a flat list: one event with any
\* participants value, or several events
FlatDocs ==
    {[events |-> PyList(<<e>>)] : e \in FlatEvents}
    \cup {[events |-> PyList(es)] :
            es \in SeqsUpTo({EmptyMap,
                             [participants |-> PyStr(<<"~", "3", "0">>)],
                             [participants |-> PyStr(<<"a">>)]}, MaxEvents)}

\* the retreat records
Retreats == {EmptyMap} \cup {[participants |-> p] : p \in ParticipantsValues}

\* documents whose events section is a mapping: a retreat alone, or counted
\* sub-sections with or without a retreat and a key the code does not read
RetreatDocs == {[events |-> PyMap([retreat |-> r])] : r \in Retreats}

StructuredEvents ==
    { Restrict([workshops |-> w, talks |-> t, notable_meetups |-> n,
                retreat |-> [participants |-> PyStr(<<"2", "4">>)],
                conferences |-> <<EmptyMap>>], K) :
        w \in SeqsUpTo({EmptyMap}, MaxItems),
        t \in SeqsUpTo({EmptyMap}, MaxItems),
        n \in SeqsUpTo({EmptyMap}, MaxItems),
        K \in SUBSET {"workshops", "talks", "notable_meetups", "retreat",
                      "conferences"} }

StructuredDocs == {[events |-> PyMap(ev)] : ev \in StructuredEvents}

\* the mappings a year's document is drawn from when it is the one year of
\* the store that varies freely
RichDocs == CourseDocs \cup CountedDocs \cup FlatDocs \cup RetreatDocs
            \cup StructuredDocs

\* the documents of the tests and of the specification for one year
KnownDocs(year) ==
    CASE year = "2023" -> {SpecDoc2023, TestDoc2023}
      [] year = "2024" -> {SpecDoc2024, TestDoc2024}
      [] year = "2025" -> {TestDoc}

\* what data/{year}.json may be when every year varies: missing, not JSON, an
\* empty mapping, a JSON list, or a known document
BasicEntries(year) ==
    {Absent, Corrupt, Parsed(PyMap(EmptyMap)), Parsed(PyList(<<EmptyMap>>))}
    \cup {Parsed(PyMap(d)) : d \in KnownDocs(year)}

\* the stores in which every year is drawn from its basic entries
BasicStores ==
    { st \in [YearIds -> UNION {BasicEntries(y) : y \in YearIds}] :
        \A y \in YearIds : st[y] \in BasicEntries(y) }

\* the stores next to which one year varies freely: no other document, or
\* the documents of the specification's scenario and of the first test
SideStores ==
    { [y \in YearIds |-> Absent],
      [y \in YearIds |->
          CASE y = "2023" -> Parsed(PyMap(SpecDoc2023))
            [] y = "2024" -> Parsed(PyMap(SpecDoc2024))
            [] y = "2025" -> Parsed(PyMap(TestDoc))] }

\* the stores of the model: every year a basic entry, or one year any
\* document of RichDocs next to a side store
Stores ==
    BasicStores
    \cup { [st EXCEPT ![y] = Parsed(PyMap(d))] :
             d \in RichDocs, st \in SideStores, y \in YearIds }

\* lines 881-884: the selection a session starts with
InitNav == [selected_year |-> "2025", selected_section |-> "overview"]

\* lines 889-944: the selections of the sixteen sidebar buttons
NavTargets ==
    {[selected_year |-> "2025", selected_section |-> s] :
        s \in {"overview", "courses", "university", "events", "impacts",
                "research"}}
    \cup {[selected_year |-> "2024", selected_section |-> s] :
        s \in {"overview", "coworking", "website", "newsletter", "courses",
                "events"}}
    \cup {[selected_year |-> "2023", selected_section |-> s] :
        s \in {"overview", "sacair", "indabaxs", "dl_indabax"}}

\* CodeYears with the newest year first
CodeYears_Descending == <<"2025", "2024", "2023">>

\* the order in which calculate_metrics walks the years, line 224
CodeYears == <<"2023", "2024", "2025">>

\* the orders of the year identifiers
YearOrders ==
    { o \in [1..3 -> YearIds] : \A i, j \in 1..3 : i # j => o[i] # o[j] }

----------------------------------------------------------------------------
(* The state                                                               *)

VARIABLES
    store,      \* the backing store: year identifier -> entry
    nav,        \* st.session_state: the selected year and section
    again,      \* the number of calls of calculate_metrics after the first
    parked,     \* the locals of the pass of the thread that is not running
    render,     \* main: where the script run stands, with its locals
    util,       \* the call of a utility function: arguments and return
    calls,      \* the calls of calculate_metrics and load_year_data made by
                \* the running thread in this script run
    years,      \* the sequence of year identifiers the pass walks
    pc,         \* where the pass stands
    yi,         \* index in years of the year the loop is at
    data,       \* the document of that year, as load_year_data returned it
    ci,         \* index of the next course of the loop over courses
    ei,         \* index of the next item of the loop over the 2023 events
    totals,     \* the six running counters
    diag,       \* the messages given to st.error so far
    raised,     \* the exception that ended the pass, "none" when none did
    result      \* the value returned, None before the return

vars ==
    <<store, nav, again, parked, render, util, calls, years, pc, yi, data, ci,
      ei, totals, diag, raised, result>>

year == years[yi]

\* an entry of calls: the function called and its argument
CallOf(fn, arg) == [fn |-> fn, arg |-> arg]

\* lines 212-224: the locals of a thread that has not called
\* calculate_metrics
IdleLocals ==
    [pc |-> "idle", yi |-> 1, data |-> None, ci |-> 1, ei |-> 1,
     totals |-> ZeroTotals, raised |-> "none", result |-> None,
     calls |-> <<>>]

\* no button was clicked, no selection was read
NoTarget == [selected_year |-> "none", selected_section |-> "none"]

\* lines 864-969: main is not running
NoRender ==
    [mpc |-> "off", click |-> NoTarget, before |-> NoTarget,
     sel |-> NoTarget, shown |-> <<>>, rerun |-> FALSE]

\* no utility function was called
NoUtil == [fn |-> "none"]

\* the store is chosen, no call has been made
InitRest ==
    /\ nav = InitNav
    /\ again = 0
    /\ parked = IdleLocals
    /\ render = NoRender
    /\ util = NoUtil
    /\ calls = <<>>
    /\ pc = "idle"
    /\ yi = 1
    /\ data = None
    /\ ci = 1
    /\ ei = 1
    /\ totals = ZeroTotals
    /\ diag = <<>>
    /\ raised = "none"
    /\ result = None

Init ==
    /\ store \in Stores
    /\ years = CodeYears
    /\ InitRest

----------------------------------------------------------------------------
(* calculate_metrics, step by step                                         *)

\* the exception propagates out of calculate_metrics: nothing is returned
Raise(exc) ==
    /\ pc' = "raised"
    /\ raised' = exc
    /\ UNCHANGED <<store, nav, again, parked, render, util, calls, years, yi,
                   data, ci, ei, totals, diag, result>>

\* the loop moves on to the next year
NextYear ==
    /\ pc' = "for_year"
    /\ yi' = yi + 1

\* lines 215-224: the call starts, the counters are set to 0
Call ==
    /\ pc = "idle"
    /\ pc' = "for_year"
    /\ yi' = 1
    /\ totals' = ZeroTotals
    /\ calls' = Append(calls, CallOf("calculate_metrics", ""))
    /\ UNCHANGED <<store, nav, again, parked, render, util, years, data, ci,
                   ei, diag, raised, result>>

\* lines 226-229: the loop takes a year, loads it and skips it when the
\* loaded value is falsy
LoadYear ==
    /\ pc = "for_year"
    /\ yi <= Len(years)
    /\ LET loaded == LoadYearData(store, year)
       IN  IF loaded.err # "none"
           THEN Raise(loaded.err)
           ELSE /\ data' = loaded.ret
                /\ diag' = diag \o loaded.msgs
                /\ calls' = Append(calls, CallOf("load_year_data", year))
                /\ IF PyFalsy(loaded.ret)
                   THEN NextYear
                   ELSE pc' = "counts" /\ yi' = yi
                /\ UNCHANGED <<store, nav, again, parked, render, util,
                               years, ci, ei, totals, raised, result>>

\* CountSections that counts, of the university groups, only the entries
\* that are not empty
CountSections_NonEmpty ==
    /\ pc = "counts"
    /\ IF data.t # "map"
       THEN Raise("AttributeError")
       ELSE /\ totals' =
                 [totals EXCEPT
                    !.total_courses = @ + Len(PyGet(data.v, "courses", <<>>)),
                    !.total_university_groups =
                        @ + LET ug == PyGet(data.v, "university_groups", <<>>)
                            IN  Cardinality({i \in 1..Len(ug) :
                                                DOMAIN ug[i] # {}}),
                    !.total_research_papers =
                        @ + Len(PyGet(data.v, "research", <<>>)),
                    !.total_individual_impacts =
                        @ + Len(PyGet(data.v, "individual_impacts", <<>>))]
            /\ pc' = "courses"
            /\ ci' = 1
            /\ UNCHANGED <<store, nav, again, parked, render, util, calls,
                           years, yi, data, ei, diag, raised, result>>

\* CountSections that assigns the count of the university groups of the
\* year in place of adding it
CountSections_Assign ==
    /\ pc = "counts"
    /\ IF data.t # "map"
       THEN Raise("AttributeError")
       ELSE /\ totals' =
                 [totals EXCEPT
                    !.total_courses = @ + Len(PyGet(data.v, "courses", <<>>)),
                    !.total_university_groups =
                        Len(PyGet(data.v, "university_groups", <<>>)),
                    !.total_research_papers =
                        @ + Len(PyGet(data.v, "research", <<>>)),
                    !.total_individual_impacts =
                        @ + Len(PyGet(data.v, "individual_impacts", <<>>))]
            /\ pc' = "courses"
            /\ ci' = 1
            /\ UNCHANGED <<store, nav, again, parked, render, util, calls,
                           years, yi, data, ei, diag, raised, result>>

\* lines 231-245: the four sections that are counted by their length
CountSections ==
    /\ pc = "counts"
    /\ IF data.t # "map"
       THEN Raise("AttributeError")
       ELSE /\ totals' =
                 [totals EXCEPT
                    !.total_courses = @ + Len(PyGet(data.v, "courses", <<>>)),
                    !.total_university_groups =
                        @ + Len(PyGet(data.v, "university_groups", <<>>)),
                    !.total_research_papers =
                        @ + Len(PyGet(data.v, "research", <<>>)),
                    !.total_individual_impacts =
                        @ + Len(PyGet(data.v, "individual_impacts", <<>>))]
            /\ pc' = "courses"
            /\ ci' = 1
            /\ UNCHANGED <<store, nav, again, parked, render, util, calls,
                           years, yi, data, ei, diag, raised, result>>

\* lines 248-259: one course of the loop over courses
CourseStep ==
    /\ pc = "courses"
    /\ ci <= Len(PyGet(data.v, "courses", <<>>))
    /\ totals' = [totals EXCEPT !.total_participants =
                     @ + CourseParticipants(PyGet(data.v, "courses", <<>>)[ci])]
    /\ ci' = ci + 1
    /\ UNCHANGED <<store, nav, again, parked, render, util, calls, years, pc,
                   yi, data, ei, diag, raised, result>>

\* CountEvents that counts all events for the first year of the walk in
\* place of the year 2023
CountEvents_FirstYear ==
    /\ pc = "courses"
    /\ ci > Len(PyGet(data.v, "courses", <<>>))
    /\ LET events == PyGet(data.v, "events", PyMap(EmptyMap))
       IN  totals' = [totals EXCEPT !.total_workshops_events =
                         @ + SubsectionCount(events)
                           + (IF yi = 1
                              THEN PyLen(PyGet(data.v, "events", PyList(<<>>)))
                              ELSE 0)]
    /\ pc' = "retreat"
    /\ UNCHANGED <<store, nav, again, parked, render, util, calls, years, yi,
                   data, ci, ei, diag, raised, result>>

\* lines 262-277: the loop over courses is over; the events are counted
CountEvents ==
    /\ pc = "courses"
    /\ ci > Len(PyGet(data.v, "courses", <<>>))
    /\ LET events == PyGet(data.v, "events", PyMap(EmptyMap))
       IN  totals' = [totals EXCEPT !.total_workshops_events =
                         @ + SubsectionCount(events)
                           + AllEventsCount(year, data.v)]
    /\ pc' = "retreat"
    /\ UNCHANGED <<store, nav, again, parked, render, util, calls, years, yi,
                   data, ci, ei, diag, raised, result>>

\* lines 279-285: the participants of the retreat
CountRetreat ==
    /\ pc = "retreat"
    /\ LET events == PyGet(data.v, "events", PyMap(EmptyMap))
       IN  totals' = [totals EXCEPT !.total_participants =
                         @ + RetreatParticipants(year, events)]
    /\ pc' = "flat"
    /\ ei' = 1
    /\ UNCHANGED <<store, nav, again, parked, render, util, calls, years, yi,
                   data, ci, diag, raised, result>>

\* the items of the loop of lines 288-290: none unless the year is 2023
FlatItems(y, d) ==
    IF y = "2023" THEN PyIter(PyGet(d, "events", PyList(<<>>))) ELSE <<>>

\* lines 290-297: one item of the loop over the 2023 events
FlatEventStep ==
    /\ pc = "flat"
    /\ ei <= Len(FlatItems(year, data.v))
    /\ LET out == FlatEventParticipants(FlatItems(year, data.v)[ei])
       IN  IF out.err # "none"
           THEN Raise(out.err)
           ELSE /\ totals' = [totals EXCEPT !.total_participants = @ + out.add]
                /\ ei' = ei + 1
                /\ UNCHANGED <<store, nav, again, parked, render, util,
                               calls, years, pc, yi, data, ci, diag, raised,
                               result>>

\* the body of the loop over the years is over for this year
EndYear ==
    /\ pc = "flat"
    /\ ei > Len(FlatItems(year, data.v))
    /\ NextYear
    /\ UNCHANGED <<store, nav, again, parked, render, util, calls, years,
                   data, ci, ei, totals, diag, raised, result>>

\* Return that leaves out the counters that stayed 0
Return_NonZeroOnly ==
    /\ pc = "for_year"
    /\ yi > Len(years)
    /\ result' = [t |-> "map",
                  v |-> Restrict(totals,
                                 {k \in DOMAIN totals : totals[k] # 0})]
    /\ pc' = "done"
    /\ UNCHANGED <<store, nav, again, parked, render, util, calls, years, yi,
                   data, ci, ei, totals, diag, raised>>

\* lines 299-306: the loop over the years is over, the counters are returned
Return ==
    /\ pc = "for_year"
    /\ yi > Len(years)
    /\ result' = [t |-> "map",
                  v |-> [total_courses |-> totals.total_courses,
                         total_participants |-> totals.total_participants,
                         total_research_papers |-> totals.total_research_papers,
                         total_workshops_events |-> totals.total_workshops_events,
                         total_university_groups |-> totals.total_university_groups,
                         total_individual_impacts |-> totals.total_individual_impacts]]
    /\ pc' = "done"
    /\ UNCHANGED <<store, nav, again, parked, render, util, calls, years, yi,
                   data, ci, ei, totals, diag, raised>>

Next ==
    \/ Call
    \/ LoadYear
    \/ CountSections
    \/ CourseStep
    \/ CountEvents
    \/ CountRetreat
    \/ FlatEventStep
    \/ EndYear
    \/ Return

Spec == Init /\ [][Next]_vars

\* the same pass over any order of the year identifiers
InitAnyOrder ==
    /\ store \in Stores
    /\ years \in YearOrders
    /\ InitRest

SpecAnyOrder == InitAnyOrder /\ [][Next]_vars

----------------------------------------------------------------------------
(* Calls that follow one another, next to a store and a selection that     *)
(* change between them                                                     *)

\* what data/{year}.json is drawn from when the store changes between calls:
\* missing, not JSON, or the document of the tests for the year
SessionEntries(y) ==
    {Absent, Corrupt,
     Parsed(PyMap(CASE y = "2023" -> TestDoc2023
                    [] y = "2024" -> TestDoc2024
                    [] y = "2025" -> TestDoc))}

SessionStores ==
    { st \in [YearIds -> UNION {SessionEntries(y) : y \in YearIds}] :
        \A y \in YearIds : st[y] \in SessionEntries(y) }

\* CallAgain that hands the counters of the last pass to the return
\* without walking the years again
CallAgain_Cached ==
    /\ pc = "done"
    /\ again < MaxAgain
    /\ again' = again + 1
    /\ calls' = Append(calls, CallOf("calculate_metrics", ""))
    /\ pc' = "for_year"
    /\ yi' = Len(years) + 1
    /\ UNCHANGED <<store, nav, parked, render, util, years, data, ci, ei,
                   totals, diag, raised, result>>

\* CallAgain that goes on from the counters of the last pass
CallAgain_KeepTotals ==
    /\ pc \in {"done", "raised"}
    /\ again < MaxAgain
    /\ again' = again + 1
    /\ calls' = Append(calls, CallOf("calculate_metrics", ""))
    /\ pc' = "for_year"
    /\ yi' = 1
    /\ data' = None
    /\ ci' = 1
    /\ ei' = 1
    /\ raised' = "none"
    /\ UNCHANGED <<store, nav, parked, render, util, years, totals, diag,
                   result>>

\* lines 215-224: calculate_metrics is called after an earlier call has
\* returned or raised; the locals of the call are new, the caller holds the
\* Totals returned before and the messages given so far stay where they are
CallAgain ==
    /\ pc \in {"done", "raised"}
    /\ again < MaxAgain
    /\ again' = again + 1
    /\ calls' = Append(calls, CallOf("calculate_metrics", ""))
    /\ pc' = "for_year"
    /\ yi' = 1
    /\ totals' = ZeroTotals
    /\ data' = None
    /\ ci' = 1
    /\ ei' = 1
    /\ raised' = "none"
    /\ UNCHANGED <<store, nav, parked, render, util, years, diag, result>>

\* between two calls the document of a year is added, removed or changed
StoreChange ==
    /\ pc \in {"idle", "done", "raised"}
    /\ \E y \in YearIds :
          \E e \in SessionEntries(y) :
              /\ e # store[y]
              /\ store' = [store EXCEPT ![y] = e]
    /\ UNCHANGED <<nav, again, parked, render, util, calls, years, pc, yi,
                   data, ci, ei, totals, diag, raised, result>>

\* lines 889-944: between two calls a sidebar button sets the selected year
\* and section
Click ==
    /\ pc \in {"idle", "done", "raised"}
    /\ \E t \in NavTargets :
          /\ t # nav
          /\ nav' = t
    /\ UNCHANGED <<store, again, parked, render, util, calls, years, pc, yi,
                   data, ci, ei, totals, diag, raised, result>>

InitSession ==
    /\ store \in SessionStores
    /\ years = CodeYears
    /\ InitRest

\* calls one after the other over a store that changes between them
NextStore ==
    \/ Next
    \/ CallAgain
    \/ StoreChange

SpecStore == InitSession /\ [][NextStore]_vars

\* calls one after the other over a store that stays, in a session whose
\* selection changes between them
InitRepeat ==
    /\ store \in BasicStores
    /\ years = CodeYears
    /\ InitRest

NextRepeat ==
    \/ Next
    \/ CallAgain
    \/ Click

SpecRepeat == InitRepeat /\ [][NextRepeat]_vars

----------------------------------------------------------------------------
(* Two threads that call calculate_metrics over the same store              *)

\* lines 215-227: the locals of the pass of the running thread
Locals ==
    [pc |-> pc, yi |-> yi, data |-> data, ci |-> ci, ei |-> ei,
     totals |-> totals, raised |-> raised, result |-> result,
     calls |-> calls]

\* Switch with the six counters kept at module level, shared by the two
\* threads, in place of locals of each call
Switch_SharedTotals ==
    /\ parked' = Locals
    /\ pc' = parked.pc
    /\ yi' = parked.yi
    /\ data' = parked.data
    /\ ci' = parked.ci
    /\ ei' = parked.ei
    /\ raised' = parked.raised
    /\ result' = parked.result
    /\ calls' = parked.calls
    /\ UNCHANGED <<store, nav, again, render, util, years, totals, diag>>

\* the interpreter hands the processor to the other thread: the frame of
\* calculate_metrics (lines 215-227) belongs to the thread, the store and
\* the messages given to st.error are shared
Switch ==
    /\ parked' = Locals
    /\ pc' = parked.pc
    /\ yi' = parked.yi
    /\ data' = parked.data
    /\ ci' = parked.ci
    /\ ei' = parked.ei
    /\ totals' = parked.totals
    /\ raised' = parked.raised
    /\ result' = parked.result
    /\ calls' = parked.calls
    /\ UNCHANGED <<store, nav, again, render, util, years, diag>>

InitTwo ==
    /\ store \in BasicStores
    /\ years = CodeYears
    /\ InitRest

\* the steps of the passes of two threads, in any interleaving
NextTwo ==
    \/ Next
    \/ Switch

SpecTwo == InitTwo /\ [][NextTwo]_vars

----------------------------------------------------------------------------
(* main: one script run after the other                                    *)

\* the documents of the script runs: none, those of the tests, those of the
\* scenario, and a store whose 2025 document is a JSON list
RenderStores ==
    { [y \in YearIds |-> Absent],
      [y \in YearIds |->
          CASE y = "2023" -> Parsed(PyMap(TestDoc2023))
            [] y = "2024" -> Parsed(PyMap(TestDoc2024))
            [] y = "2025" -> Parsed(PyMap(TestDoc))],
      [y \in YearIds |->
          CASE y = "2023" -> Parsed(PyMap(SpecDoc2023))
            [] y = "2024" -> Parsed(PyMap(SpecDoc2024))
            [] y = "2025" -> Absent],
      [y \in YearIds |->
          CASE y = "2023" -> Corrupt
            [] y = "2024" -> Parsed(PyMap(TestDoc2024))
            [] y = "2025" -> Parsed(PyList(<<EmptyMap>>))] }

\* lines 950-955: the function main calls for the selected year
DisplayFn(y) ==
    CASE y = "2025" -> "display_2025_content"
      [] y = "2024" -> "display_2024_content"
      [] y = "2023" -> "display_2023_content"

\* lines 311-327, 531-547 and 773-791: the sections each display function
\* has a branch for
Displayable(y) ==
    CASE y = "2025" -> {"overview", "courses", "university", "events",
                        "impacts", "research"}
      [] y = "2024" -> {"overview", "coworking", "website", "newsletter",
                        "courses", "events"}
      [] y = "2023" -> {"overview", "sacair", "indabaxs", "dl_indabax"}
      [] OTHER -> {}

\* the calls of load_year_data a display function makes for a section: one
\* in display_2023_content (line 767), one in each function of a section
\* of 2025 and 2024 (lines 333-485, 553-685), five for their overview
DisplayLoads(sel) ==
    IF sel.selected_year = "2023" THEN 1
    ELSE IF sel.selected_section \notin Displayable(sel.selected_year) THEN 0
    ELSE IF sel.selected_section = "overview" THEN 5
    ELSE 1

\* lines 866-870: the first run of the script of a session has shown the
\* header and is to show the banner; st.session_state has no key yet
InitRender ==
    /\ store \in RenderStores
    /\ years = CodeYears
    /\ nav = NoTarget
    /\ render = [mpc |-> "banner", click |-> NoTarget, before |-> NoTarget,
                 sel |-> NoTarget, shown |-> <<>>, rerun |-> FALSE]
    /\ again = 0
    /\ parked = IdleLocals
    /\ util = NoUtil
    /\ calls = <<>>
    /\ pc = "idle"
    /\ yi = 1
    /\ data = None
    /\ ci = 1
    /\ ei = 1
    /\ totals = ZeroTotals
    /\ diag = <<>>
    /\ raised = "none"
    /\ result = None

\* lines 870-875: calculate_metrics has returned; the banner and the growth
\* chart are shown
Banner ==
    /\ render.mpc = "banner"
    /\ pc = "done"
    /\ render' = [render EXCEPT !.mpc = "sidebar"]
    /\ UNCHANGED <<store, nav, again, parked, util, calls, years, pc, yi,
                   data, ci, ei, totals, diag, raised, result>>

\* lines 822-823: the exception of calculate_metrics ends the script run
BannerRaised ==
    /\ render.mpc = "banner"
    /\ pc = "raised"
    /\ render' = [render EXCEPT !.mpc = "aborted"]
    /\ UNCHANGED <<store, nav, again, parked, util, calls, years, pc, yi,
                   data, ci, ei, totals, diag, raised, result>>

\* lines 881-884: the keys st.session_state does not have get their
\* defaults
SessionDefaults(n) ==
    [selected_year |->
        IF n.selected_year = "none" THEN "2025" ELSE n.selected_year,
     selected_section |->
        IF n.selected_section = "none" THEN "overview"
        ELSE n.selected_section]

\* Sidebar in which a button sets the selected year and leaves the section
Sidebar_YearOnly ==
    /\ render.mpc = "sidebar"
    /\ nav' = IF render.click # NoTarget
              THEN [SessionDefaults(nav) EXCEPT
                       !.selected_year = render.click.selected_year]
              ELSE SessionDefaults(nav)
    /\ render' = [render EXCEPT !.mpc = "select"]
    /\ UNCHANGED <<store, again, parked, util, calls, years, pc, yi, data,
                   ci, ei, totals, diag, raised, result>>

\* lines 881-944: the defaults, then the sixteen buttons: the one that was
\* clicked sets the selected year and the selected section
Sidebar ==
    /\ render.mpc = "sidebar"
    /\ nav' = IF render.click # NoTarget
              THEN render.click
              ELSE SessionDefaults(nav)
    /\ render' = [render EXCEPT !.mpc = "select"]
    /\ UNCHANGED <<store, again, parked, util, calls, years, pc, yi, data,
                   ci, ei, totals, diag, raised, result>>

\* Select that takes the selection as the script run found it, before the
\* buttons
Select_Stale ==
    /\ render.mpc = "select"
    /\ render' = [render EXCEPT
                     !.mpc = "display",
                     !.sel = SessionDefaults(render.before)]
    /\ UNCHANGED <<store, nav, again, parked, util, calls, years, pc, yi,
                   data, ci, ei, totals, diag, raised, result>>

\* lines 946-947: main reads the selection
Select ==
    /\ render.mpc = "select"
    /\ render' = [render EXCEPT !.mpc = "display", !.sel = nav]
    /\ UNCHANGED <<store, nav, again, parked, util, calls, years, pc, yi,
                   data, ci, ei, totals, diag, raised, result>>

\* lines 950-955: the display function of the selected year is called with
\* the selected section; it loads the year for each part it shows and ends,
\* or an exception of the rendering of a document ends the script run
Display ==
    /\ render.mpc = "display"
    /\ LET y == render.sel.selected_year
       IN  IF y \notin YearIds
           THEN /\ render' = [render EXCEPT !.mpc = "check"]
                /\ UNCHANGED <<calls, diag>>
           ELSE \E k \in 0..DisplayLoads(render.sel) :
                \E ends \in {"check", "aborted"} :
                    /\ k < DisplayLoads(render.sel) => ends = "aborted"
                    /\ render' =
                          [render EXCEPT
                              !.mpc = ends,
                              !.shown =
                                  <<[fn |-> DisplayFn(y),
                                     arg |-> render.sel.selected_section]>>]
                    /\ calls' = calls \o
                          [i \in 1..k |-> CallOf("load_year_data", y)]
                    /\ diag' = diag \o
                          [i \in 1..(IF LoadYearData(store, y).msgs = <<>>
                                     THEN 0 ELSE k) |->
                              LoadYearData(store, y).msgs[1]]
    /\ UNCHANGED <<store, nav, again, parked, util, years, pc, yi, data, ci,
                   ei, totals, raised, result>>

\* lines 958-969: st.rerun is called when the selection of st.session_state
\* differs from the one main read; the footer follows when it is not
RerunCheck ==
    /\ render.mpc = "check"
    /\ render' = [render EXCEPT !.mpc = "end", !.rerun = (nav # render.sel)]
    /\ UNCHANGED <<store, nav, again, parked, util, calls, years, pc, yi,
                   data, ci, ei, totals, diag, raised, result>>

\* the script runs again, for a click on one of the sidebar buttons or for
\* no click: st.session_state stays, the page and the locals are new
StartRender ==
    /\ render.mpc \in {"end", "aborted"}
    /\ \E c \in NavTargets \cup {NoTarget} :
          render' = [mpc |-> "banner", click |-> c, before |-> nav,
                     sel |-> NoTarget, shown |-> <<>>, rerun |-> FALSE]
    /\ pc' = "idle"
    /\ yi' = 1
    /\ data' = None
    /\ ci' = 1
    /\ ei' = 1
    /\ totals' = ZeroTotals
    /\ diag' = <<>>
    /\ raised' = "none"
    /\ result' = None
    /\ calls' = <<>>
    /\ UNCHANGED <<store, nav, again, parked, util, years>>

NextRender ==
    \/ Next
    \/ Banner
    \/ BannerRaised
    \/ Sidebar
    \/ Select
    \/ Display
    \/ RerunCheck
    \/ StartRender

SpecRender == InitRender /\ [][NextRender]_vars

----------------------------------------------------------------------------
(* The utility functions                                                   *)

\* the characters of a text of the source
BelowOpen ==
    << "\n", " ", " ", " ", " ", " ", " ", " ", " ", " ", " ", " ", " ", "<",
       "d", "i", "v", " ", "c", "l", "a", "s", "s", "=", "\"", "i", "m", "a",
       "g", "e", "-", "p", "l", "a", "c", "e", "h", "o", "l", "d", "e", "r",
       "\"", ">", "\n", " ", " ", " ", " ", " ", " ", " ", " ", " ", " ",
       " ", " ", " ", " ", " ", " " >>

\* the pictograph that opens the caption of a placeholder, as one character
Camera == <<"[camera]">>

BelowCaption ==
    << " ", "I", "m", "a", "g", "e", " ", "P", "l", "a", "c", "e", "h", "o",
       "l", "d", "e", "r", ":", " " >>

SideOpen ==
    << "\n", " ", " ", " ", " ", " ", " ", " ", " ", " ", " ", " ", " ", "<",
       "d", "i", "v", " ", "c", "l", "a", "s", "s", "=", "\"", "i", "m", "a",
       "g", "e", "-", "p", "l", "a", "c", "e", "h", "o", "l", "d", "e", "r",
       "\"", " ", "s", "t", "y", "l", "e", "=", "\"", "w", "i", "d", "t",
       "h", ":", " ", "2", "0", "0", "p", "x", ";", " ", "h", "e", "i", "g",
       "h", "t", ":", " ", "2", "0", "0", "p", "x", ";", " ", "d", "i", "s",
       "p", "l", "a", "y", ":", " ", "f", "l", "e", "x", ";", " ", "a", "l",
       "i", "g", "n", "-", "i", "t", "e", "m", "s", ":", " ", "c", "e", "n",
       "t", "e", "r", ";", " ", "j", "u", "s", "t", "i", "f", "y", "-", "c",
       "o", "n", "t", "e", "n", "t", ":", " ", "c", "e", "n", "t", "e", "r",
       ";", " ", "m", "a", "r", "g", "i", "n", ":", " ", "0", " ", "a", "u",
       "t", "o", ";", "\"", ">", "\n", " ", " ", " ", " ", " ", " ", " ",
       " ", " ", " ", " ", " ", " ", " ", " ", " " >>

SideCaption ==
    << " ", "I", "m", "a", "g", "e", " ", "P", "l", "a", "c", "e", "h", "o",
       "l", "d", "e", "r", ":", "<", "b", "r", ">" >>

PlaceholderClose ==
    << "\n", " ", " ", " ", " ", " ", " ", " ", " ", " ", " ", " ", " ", "<",
       "/", "d", "i", "v", ">", "\n", " ", " ", " ", " ", " ", " ", " ", " ",
       " ", " ", " ", " " >>

InlineBlock ==
    << "i", "n", "l", "i", "n", "e", "-", "b", "l", "o", "c", "k" >>

TestDescription ==
    << "T", "e", "s", "t", " ", "d", "e", "s", "c", "r", "i", "p", "t", "i",
       "o", "n" >>

\* what st.markdown returns: an element of the page, not a text
Element == [t |-> "element"]

\* the image_url arguments: None, the path of no file, the path of a file
ImageUrls == {"none", "missing", "exists"}

\* the sides: the default, the one of the tests and one more
Sides == {"below", "side", "left"}

\* the descriptions: short texts, the one of the tests, and a text that is
\* a piece of style itself
Descriptions ==
    SeqsUpTo({"a", "<"}, MaxLen) \cup {TestDescription, InlineBlock}

\* lines 46-67: create_image_placeholder(description, side, image_url): the
\* value returned and the markup handed to st.markdown (<<>> when st.image
\* shows the image)
CreateImagePlaceholder(description, side, image) ==
    IF image = "exists"
    THEN [ret |-> None, markup |-> <<>>]
    ELSE IF side = "below"
    THEN [ret |-> Element,
          markup |-> BelowOpen \o Camera \o BelowCaption \o description
                     \o PlaceholderClose]
    ELSE [ret |-> Element,
          markup |-> SideOpen \o Camera \o SideCaption \o description
                     \o PlaceholderClose]

\* a bar of a figure
Bar(name, x, y) == [name |-> name, x |-> x, y |-> y]

\* CreateCourseCompletionChart with the bar of the totals first
CreateCourseCompletionChart_TotalFirst ==
    LET tracks == <<"Technical Track", "Governance Track">>
        completed == <<20, 54>>
        total == <<39, 92>>
    IN  [data |-> << Bar("Total Participants", tracks, total),
                     Bar("Completed", tracks, completed) >>,
         barmode |-> "group"]

\* lines 137-158: the figure of create_course_completion_chart
CreateCourseCompletionChart ==
    LET tracks == <<"Technical Track", "Governance Track">>
        completed == <<20, 54>>
        total == <<39, 92>>
    IN  [data |-> << Bar("Completed", tracks, completed),
                     Bar("Total Participants", tracks, total) >>,
         barmode |-> "group"]

\* a utility function is about to be called with its arguments
InitUtil ==
    /\ util \in
          {[fn |-> "create_image_placeholder", pc |-> "call",
            description |-> d, side |-> s, image |-> u,
            ret |-> None, markup |-> <<>>] :
              d \in Descriptions, s \in Sides, u \in ImageUrls}
          \cup {[fn |-> "create_course_completion_chart", pc |-> "call",
                 ret |-> None]}
    /\ store = [y \in YearIds |-> Absent]
    /\ years = CodeYears
    /\ nav = InitNav
    /\ render = NoRender
    /\ again = 0
    /\ parked = IdleLocals
    /\ calls = <<>>
    /\ pc = "idle"
    /\ yi = 1
    /\ data = None
    /\ ci = 1
    /\ ei = 1
    /\ totals = ZeroTotals
    /\ diag = <<>>
    /\ raised = "none"
    /\ result = None

\* lines 46-67: the call of create_image_placeholder returns
PlaceholderCall ==
    /\ util.fn = "create_image_placeholder"
    /\ util.pc = "call"
    /\ LET out == CreateImagePlaceholder(util.description, util.side,
                                         util.image)
       IN  util' = [util EXCEPT !.pc = "returned", !.ret = out.ret,
                                !.markup = out.markup]
    /\ UNCHANGED <<store, nav, again, parked, render, calls, years, pc, yi,
                   data, ci, ei, totals, diag, raised, result>>

\* lines 137-158: the call of create_course_completion_chart returns
ChartCall ==
    /\ util.fn = "create_course_completion_chart"
    /\ util.pc = "call"
    /\ util' = [util EXCEPT !.pc = "returned",
                            !.ret = CreateCourseCompletionChart]
    /\ UNCHANGED <<store, nav, again, parked, render, calls, years, pc, yi,
                   data, ci, ei, totals, diag, raised, result>>

NextUtil ==
    \/ PlaceholderCall
    \/ ChartCall

SpecUtil == InitUtil /\ [][NextUtil]_vars

----------------------------------------------------------------------------
(* What a pass over given years is to return, as a fold of the years       *)

\* the sum of f(s[i]) over the sequence s
RECURSIVE SumSeq(_, _)
SumSeq(f(_), s) == IF Len(s) = 0 THEN 0 ELSE f(s[1]) + SumSeq(f, Tail(s))

\* what the loop body (lines 231-297) adds to the six counters for a loaded
\* document d of year y
YearContribution(y, d) ==
    IF d.t # "map" \/ DOMAIN d.v = {} THEN ZeroTotals
    ELSE LET events == PyGet(d.v, "events", PyMap(EmptyMap))
             FlatAdd(item) == FlatEventParticipants(item).add
         IN  [total_courses |-> Len(PyGet(d.v, "courses", <<>>)),
              total_university_groups |->
                  Len(PyGet(d.v, "university_groups", <<>>)),
              total_research_papers |-> Len(PyGet(d.v, "research", <<>>)),
              total_individual_impacts |->
                  Len(PyGet(d.v, "individual_impacts", <<>>)),
              total_workshops_events |->
                  SubsectionCount(events) + AllEventsCount(y, d.v),
              total_participants |->
                  SumSeq(CourseParticipants, PyGet(d.v, "courses", <<>>))
                  + RetreatParticipants(y, events)
                  + SumSeq(FlatAdd, FlatItems(y, d.v))]

\* the sum of two Totals records
AddTotals(a, b) == [k \in DOMAIN a |-> a[k] + b[k]]

\* the Totals of the years ys of the store st whose document loads
RECURSIVE FoldYears(_, _)
FoldYears(st, ys) ==
    IF Len(ys) = 0 THEN ZeroTotals
    ELSE AddTotals(IF st[ys[1]].kind = "ok"
                   THEN YearContribution(ys[1], st[ys[1]].doc)
                   ELSE ZeroTotals,
                   FoldYears(st, Tail(ys)))

\* the year failed to load: its document is missing or corrupt
Failed(st, y) == st[y].kind \in {"absent", "corrupt"}

IsText(p) == p.t = "str"

\* every participants value of the mapping d is a text
ParticipantsAreTexts(d) ==
    "events" \in DOMAIN d =>
        LET events == d["events"]
        IN  IF events.t = "list"
            THEN \A i \in 1..Len(events.v) :
                    "participants" \in DOMAIN events.v[i]
                        => IsText(events.v[i]["participants"])
            ELSE ("retreat" \in DOMAIN events.v
                    /\ "participants" \in DOMAIN events.v["retreat"])
                        => IsText(events.v["retreat"]["participants"])

\* each year of the store is absent, corrupt, or a mapping of optional
\* sections whose participants values are texts
StoreInClass(st) ==
    \A y \in YearIds :
        \/ Failed(st, y)
        \/ st[y].doc.t = "map" /\ ParticipantsAreTexts(st[y].doc.v)

IsTotals(r) ==
    /\ r.t = "map"
    /\ DOMAIN r.v = DOMAIN ZeroTotals
    /\ \A k \in DOMAIN r.v : r.v[k] \in Nat

----------------------------------------------------------------------------
(* The claims                                                              *)

ScenarioStore ==
    [y \in YearIds |->
        CASE y = "2023" -> Parsed(PyMap(SpecDoc2023))
          [] y = "2024" -> Parsed(PyMap(SpecDoc2024))
          [] y = "2025" -> Absent]

\* C1 as stated: in the end-to-end scenario (2023 with two flat events "~30"
\* and "~15", 2024 with one track-sum course, one workshop and the retreat
\* "24 attendees", no 2025) the pass returns total_courses = 1,
\* total_participants = 143, total_workshops_events = 1 and 0 elsewhere.
C1_ScenarioAsStated ==
    (store = ScenarioStore /\ pc = "done") =>
        result.v = [ZeroTotals EXCEPT !.total_courses = 1,
                                      !.total_participants = 143,
                                      !.total_workshops_events = 1]

\* C1 amended: in the end-to-end scenario the pass returns total_courses = 1,
\* total_participants = 143 and total_workshops_events = 3 (the workshop of
\* 2024 and the two flat events of 2023), and 0 for the other counters.
C1_Scenario ==
    (store = ScenarioStore /\ pc = "done") =>
        result.v = [ZeroTotals EXCEPT !.total_courses = 1,
                                      !.total_participants = 143,
                                      !.total_workshops_events = 3]

C1_Witness == store = ScenarioStore /\ pc = "done" /\ IsTotals(result)

C3_FailOpen ==
    (\A y \in YearIds : store[y] = Absent) =>
        /\ raised = "none"
        /\ pc = "done" => IsTotals(result) /\ result.v = ZeroTotals

C3_Witness ==
    /\ \A y \in YearIds : store[y] = Absent
    /\ pc = "done"
    /\ Len(diag) = 3

C5_OrderIndependent ==
    pc = "done" => result.v = FoldYears(store, CodeYears)

C5_Witness ==
    /\ pc = "done"
    /\ years = <<"2025", "2024", "2023">>
    /\ \A y \in YearIds : store[y].kind = "ok"
    /\ result.v.total_participants > 0
    /\ result.v.total_workshops_events > 0

\* the course the loop over courses is at
ThisCourse == PyGet(data.v, "courses", <<>>)[ci]

\* the step about to be taken is the body of the loop over courses
AtCourse == pc = "courses" /\ ci <= Len(PyGet(data.v, "courses", <<>>))

\* C6: additive participant counting: a course that has both
\* completion.total_completed = a and metrics.completed = b adds a + b to
\* total_participants, in any year.
C6_Additive ==
    [][ (/\ AtCourse
         /\ "completion" \in DOMAIN ThisCourse
         /\ "total_completed" \in DOMAIN ThisCourse["completion"]
         /\ "metrics" \in DOMAIN ThisCourse
         /\ "completed" \in DOMAIN ThisCourse["metrics"])
        => totals'.total_participants =
              totals.total_participants
              + ThisCourse["completion"]["total_completed"]
              + ThisCourse["metrics"]["completed"] ]_vars

C6_Witness ==
    /\ pc = "courses"
    /\ ci = 2
    /\ year = "2025"
    /\ PyGet(data.v, "courses", <<>>)[1] =
          [completion |-> [total_completed |-> 15], metrics |-> [completed |-> 10]]
    /\ totals.total_participants = 25

\* what the completion rule of the specification gives for a course
CompletionRule(course) ==
    CASE "completion" \notin DOMAIN course -> 0
      [] "completion" \in DOMAIN course
         /\ "total_completed" \in DOMAIN course["completion"] ->
            course["completion"]["total_completed"]
      [] "completion" \in DOMAIN course
         /\ "total_completed" \notin DOMAIN course["completion"]
         /\ {"technical_completed", "governance_completed"}
               \subseteq DOMAIN course["completion"] ->
            course["completion"]["technical_completed"]
            + course["completion"]["governance_completed"]
      [] OTHER -> 0

\* C7: completion rule: next to what metrics.completed adds, a course adds
\* completion.total_completed when that key is present (the track fields are
\* then ignored), else technical_completed + governance_completed when both
\* are present, else 0.
C7_CompletionRule ==
    [][ AtCourse =>
          totals'.total_participants =
              totals.total_participants + CompletionRule(ThisCourse)
              + (IF "metrics" \in DOMAIN ThisCourse
                    /\ "completed" \in DOMAIN ThisCourse["metrics"]
                 THEN ThisCourse["metrics"]["completed"] ELSE 0) ]_vars

C7_Witness ==
    /\ pc = "courses"
    /\ ci = 2
    /\ PyGet(data.v, "courses", <<>>)[1] =
          [completion |-> [total_completed |-> 0, technical_completed |-> 20,
                           governance_completed |-> 54]]
    /\ totals.total_participants = 0

\* the positions of the text s that hold a digit
DigitPositions(s) == {i \in 1..Len(s) : s[i] \in Digits}

\* ten to the power n
RECURSIVE Pow10(_)
Pow10(n) == IF n = 0 THEN 1 ELSE 10 * Pow10(n - 1)

\* the integer written by the first maximal run of digits of the text s, 0
\* when s holds no digit
FirstDigitRunValue(s) ==
    IF DigitPositions(s) = {} THEN 0
    ELSE LET first == CHOOSE i \in DigitPositions(s) :
                          \A j \in DigitPositions(s) : i <= j
             last == CHOOSE j \in first..Len(s) :
                          /\ \A k \in first..j : k \in DigitPositions(s)
                          /\ (j + 1) \notin DigitPositions(s)
             Weighted[k \in first..(last + 1)] ==
                 IF k > last THEN 0
                 ELSE DigitVal(s[k]) * Pow10(last - k) + Weighted[k + 1]
         IN  Weighted[first]

\* the events section the loop body is at
ThisEvents == PyGet(data.v, "events", PyMap(EmptyMap))

\* the step about to be taken is the body of the loop over the events of a
\* flat list of the year 2023
AtFlatEvent ==
    /\ pc = "flat"
    /\ year = "2023"
    /\ ThisEvents.t = "list"
    /\ ei <= Len(ThisEvents.v)

\* C8: flat-event digit extraction: in 2023 each event of the flat list that
\* has a participants text adds to total_participants the integer value of
\* the first maximal run of digits of the text, 0 when the text holds no
\* digit; an event without a participants field adds 0.
C8_FlatDigits ==
    [][ (/\ AtFlatEvent
         /\ "participants" \in DOMAIN ThisEvents.v[ei]
               => IsText(ThisEvents.v[ei]["participants"]))
        => /\ raised' = "none"
           /\ totals'.total_participants =
                 totals.total_participants
                 + (IF "participants" \in DOMAIN ThisEvents.v[ei]
                    THEN FirstDigitRunValue(ThisEvents.v[ei]["participants"].v)
                    ELSE 0) ]_vars

C8_Witness ==
    /\ pc = "flat"
    /\ year = "2023"
    /\ ei = 2
    /\ ThisEvents = PyList(<<[participants |-> PyStr(<<"2", "a", "4">>)]>>)
    /\ totals.total_participants = 2

\* C9: retreat literal match: for the 2024 document the retreat adds exactly
\* 24 to total_participants when the text of events.retreat.participants
\* contains the substring "24", and 0 when it does not or when retreat or its
\* participants field is missing.
C9_RetreatLiteral ==
    [][ (/\ pc = "retreat"
         /\ year = "2024"
         /\ ParticipantsAreTexts(data.v))
        => totals'.total_participants =
              totals.total_participants
              + (IF /\ ThisEvents.t = "map"
                    /\ "retreat" \in DOMAIN ThisEvents.v
                    /\ "participants" \in DOMAIN ThisEvents.v["retreat"]
                    /\ \E i \in 1..Len(ThisEvents.v["retreat"]["participants"].v) - 1 :
                          /\ ThisEvents.v["retreat"]["participants"].v[i] = "2"
                          /\ ThisEvents.v["retreat"]["participants"].v[i + 1] = "4"
                 THEN 24 ELSE 0) ]_vars

C9_Witness ==
    /\ pc = "flat"
    /\ year = "2024"
    /\ ThisEvents = PyMap([retreat |->
                              [participants |-> PyStr(<<"1", "2", "4", "0">>)]])
    /\ totals.total_participants = 24

\* the step about to be taken counts the retreat of an events mapping whose
\* retreat.participants text contains "24"
AtRetreatWith24 ==
    /\ pc = "retreat"
    /\ ThisEvents.t = "map"
    /\ "retreat" \in DOMAIN ThisEvents.v
    /\ "participants" \in DOMAIN ThisEvents.v["retreat"]
    /\ IsText(ThisEvents.v["retreat"]["participants"])
    /\ PyStrContains(<<"2", "4">>, ThisEvents.v["retreat"]["participants"].v)

\* C10 as stated: in every year whose events section is a mapping with a
\* retreat.participants text that contains "24", the retreat adds exactly 24
\* to total_participants.
C10_RetreatEveryYear ==
    [][ AtRetreatWith24
        => totals'.total_participants = totals.total_participants + 24 ]_vars

\* C10 amended: the retreat rule holds for the year 2024 only: an events
\* mapping whose retreat.participants text contains "24" adds exactly 24 to
\* total_participants in 2024, and in 2023 and 2025 neither the retreat step
\* nor the walk over the keys of the events mapping adds anything.
C10_RetreatOnly2024 ==
    [][ /\ AtRetreatWith24
           => totals'.total_participants =
                 totals.total_participants + (IF year = "2024" THEN 24 ELSE 0)
        /\ (/\ pc = "flat"
            /\ ThisEvents.t = "map"
            /\ "retreat" \in DOMAIN ThisEvents.v)
           => /\ raised' = "none"
              /\ totals'.total_participants = totals.total_participants ]_vars

C10_Witness ==
    /\ pc = "flat"
    /\ year = "2025"
    /\ ThisEvents = PyMap([retreat |-> [participants |-> PyStr(<<"2", "4">>)]])
    /\ totals.total_participants = 0

\* the number of entries of the section key in the document of year y: 0
\* when the year did not load, when the document is not a mapping and when
\* the section is missing
SectionLen(st, y, key) ==
    IF st[y].kind = "ok" /\ st[y].doc.t = "map" /\ key \in DOMAIN st[y].doc.v
    THEN Len(st[y].doc.v[key])
    ELSE 0

\* the entries of the section key over the three years of the store
SectionTotal(st, key) ==
    SectionLen(st, "2023", key) + SectionLen(st, "2024", key)
    + SectionLen(st, "2025", key)

\* C11: the four count fields are pure length counts: total_courses,
\* total_university_groups, total_research_papers and
\* total_individual_impacts of the returned Totals each equal the number of
\* entries of courses, university_groups, research and individual_impacts
\* summed over the years that loaded, whatever the entries contain; a
\* missing section counts 0.
C11_LengthCounts ==
    pc = "done" =>
        /\ result.v.total_courses = SectionTotal(store, "courses")
        /\ result.v.total_university_groups =
              SectionTotal(store, "university_groups")
        /\ result.v.total_research_papers = SectionTotal(store, "research")
        /\ result.v.total_individual_impacts =
              SectionTotal(store, "individual_impacts")

\* a pass returned over a store in which a year has an empty entry in
\* university_groups and no research section, next to years that count
C11_Witness ==
    /\ pc = "done"
    /\ \E y \in YearIds :
          /\ store[y].kind = "ok" /\ store[y].doc.t = "map"
          /\ "university_groups" \in DOMAIN store[y].doc.v
          /\ store[y].doc.v["university_groups"] = <<EmptyMap>>
          /\ "research" \notin DOMAIN store[y].doc.v
    /\ result.v.total_university_groups = 2
    /\ result.v.total_courses = 1
    /\ result.v.total_research_papers = 1

\* the number of entries of the sub-section key of the events mapping ev, 0
\* when the key is missing
KeyLen(ev, key) == IF key \in DOMAIN ev.v THEN Len(ev.v[key]) ELSE 0

\* the pass takes the step that counts the events of the year at hand
EventsStep == pc = "courses" /\ pc' = "retreat"

\* C12: for every year whose events section is a mapping, that year adds to
\* total_workshops_events exactly count(workshops) + count(talks) +
\* count(notable_meetups), a missing sub-section counting 0; the retreat and
\* any other key add nothing.
C12_MappingCounts ==
    [][ (EventsStep /\ "events" \in DOMAIN data.v
            /\ data.v["events"].t = "map")
        => totals'.total_workshops_events =
               totals.total_workshops_events
               + KeyLen(data.v["events"], "workshops")
               + KeyLen(data.v["events"], "talks")
               + KeyLen(data.v["events"], "notable_meetups") ]_vars

\* the events section of the year at hand is a flat sequence
FlatEventsYear ==
    /\ data.t = "map"
    /\ "events" \in DOMAIN data.v
    /\ data.v["events"].t = "list"

\* C13 as stated: for every year whose events section is a flat sequence,
\* that year adds the full number of events in the sequence to
\* total_workshops_events, whether or not the events carry participants.
C13_FlatEveryYear ==
    [][ (EventsStep /\ FlatEventsYear)
        => totals'.total_workshops_events =
               totals.total_workshops_events + Len(data.v["events"].v) ]_vars

\* C13, amended: the year 2023 adds the full number of events of its flat
\* sequence to total_workshops_events, whether or not the events carry
\* participants; a flat sequence in 2024 or 2025 adds nothing to it.
C13_FlatOnly2023 ==
    [][ (EventsStep /\ FlatEventsYear)
        => totals'.total_workshops_events =
               totals.total_workshops_events
               + (IF year = "2023" THEN Len(data.v["events"].v) ELSE 0) ]_vars

\* the events of 2023 were counted: two events, one of them without
\* participants
C13_Witness ==
    /\ pc = "retreat"
    /\ year = "2023"
    /\ FlatEventsYear
    /\ data.v["events"].v =
          <<EmptyMap, [participants |-> PyStr(<<"~", "3", "0">>)]>>
    /\ totals.total_workshops_events = 2

NoPass == pc \in {"idle", "done", "raised"}

LoadStep == pc = "for_year" /\ yi <= Len(years)

AfterFailedLoad ==
    /\ pc = "for_year"
    /\ yi > 1
    /\ Failed(store, years[yi - 1])

\* the store in which the year y fails in the other of the two ways
OtherFailure(st, y) ==
    [st EXCEPT ![y] = IF st[y] = Absent THEN Corrupt ELSE Absent]

\* C17 as stated: the two loader failure modes are distinguishable by the
\* caller: what load_year_data hands back for a document that is absent
\* differs from what it hands back for a document that is present but
\* unparsable.
C17_Distinguishable ==
    AfterFailedLoad =>
        data # LoadYearData(OtherFailure(store, years[yi - 1]),
                            years[yi - 1]).ret

\* C17, amended: load_year_data hands back None for a document that is
\* absent and for one that is present but unparsable, so that its caller
\* cannot tell the two failures apart from the value; they differ only in
\* the message given to st.error, "not found" or "parse error".
C17_SameReturn ==
    AfterFailedLoad =>
        LET y == years[yi - 1]
            other == LoadYearData(OtherFailure(store, y), y)
        IN  /\ data = None
            /\ other.ret = None
            /\ diag[Len(diag)].kind =
                  (IF store[y] = Absent THEN "not found" ELSE "parse error")
            /\ other.msgs[1].kind # diag[Len(diag)].kind

\* the load of 2024 failed on a document that is not valid JSON, after the
\* load of 2023 failed on a missing document
C17_Witness ==
    /\ AfterFailedLoad
    /\ yi = 3
    /\ store["2023"] = Absent
    /\ store["2024"] = Corrupt
    /\ data = None
    /\ diag = << [kind |-> "not found", year |-> "2023"],
                 [kind |-> "parse error", year |-> "2024"] >>

\* C18: every load_year_data call that fails puts exactly one message on
\* the diagnostics channel, naming the year and the failure kind (not found
\* or parse error); a call that succeeds puts none, and no other step of a
\* pass puts any: a pass over k failing years has emitted exactly k
\* messages when it returns.
C18_OneDiagnostic ==
    [][ /\ LoadStep =>
              diag' = diag \o
                  (CASE store[year].kind = "absent" ->
                            <<[kind |-> "not found", year |-> year]>>
                     [] store[year].kind = "corrupt" ->
                            <<[kind |-> "parse error", year |-> year]>>
                     [] store[year].kind = "ok" -> <<>>)
        /\ ~LoadStep => diag' = diag
        /\ pc' = "done" =>
              Len(diag') = Cardinality({y \in YearIds : Failed(store, y)})
      ]_vars

\* a pass returned over a store whose 2023 document is missing and whose
\* 2025 document is not valid JSON: two messages
C18_Witness ==
    /\ pc = "done"
    /\ store["2024"].kind = "ok"
    /\ diag = << [kind |-> "not found", year |-> "2023"],
                 [kind |-> "parse error", year |-> "2025"] >>

\* C19: no caching: after any changes of the backing store and any earlier
\* loads and passes, load_year_data hands back what the store holds for the
\* year when it is called, and calculate_metrics returns the Totals of the
\* store as it is during the call; a document added, removed or changed
\* between two calls shows in the second.
C19_NoCaching ==
    [][ /\ LoadStep =>
              data' = IF store[year].kind = "ok"
                      THEN store[year].doc
                      ELSE None
        /\ (pc # "done" /\ pc' = "done") =>
              result'.v = FoldYears(store, CodeYears) ]_vars

\* a second call returned: the first one found no document (its three
\* messages), the documents of the tests were added since, and the Totals
\* returned are theirs
C19_Witness ==
    /\ pc = "done"
    /\ again = 1
    /\ \A y \in YearIds : store[y].kind = "ok"
    /\ diag = << [kind |-> "not found", year |-> "2023"],
                 [kind |-> "not found", year |-> "2024"],
                 [kind |-> "not found", year |-> "2025"] >>
    /\ result.v.total_courses = 3
    /\ result.v.total_participants = 178

\* the step belongs to a call: it starts one, moves one on or ends one
PassStep == ~NoPass \/ pc' # pc

\* C20: aggregation is idempotent and has no lasting effect: the steps of
\* calculate_metrics and of load_year_data leave the backing store and the
\* selected year and section as they are, every call starts from the same
\* locals whatever the calls before it did, and a call that returns over an
\* unchanged store returns Totals equal to those returned before.
C20_Idempotent ==
    [][ /\ PassStep => (store' = store /\ nav' = nav)
        /\ (NoPass /\ pc' = "for_year") =>
              /\ yi' = 1
              /\ totals' = ZeroTotals
              /\ data' = None
              /\ raised' = "none"
        /\ (pc # "done" /\ pc' = "done" /\ result # None) =>
              result' = result ]_vars

\* a second call returned over the documents of the tests, after a sidebar
\* button was clicked: the Totals are those of the first call
C20_Witness ==
    /\ pc = "done"
    /\ again = 1
    /\ nav = [selected_year |-> "2023", selected_section |-> "sacair"]
    /\ store["2023"] = Parsed(PyMap(TestDoc2023))
    /\ store["2024"] = Parsed(PyMap(TestDoc2024))
    /\ store["2025"] = Parsed(PyMap(TestDoc))
    /\ result.v = totals
    /\ result.v.total_participants = 178
    /\ result.v.total_workshops_events = 6

\* C21: concurrent invocation is safe without locks: in every interleaving
\* of the steps of two calculate_metrics passes over the same unchanged
\* store, each pass that returns returns the Totals of a pass run alone,
\* and so the two return equal Totals.
C21_ConcurrentSafe ==
    /\ pc = "done" => result.v = FoldYears(store, CodeYears)
    /\ parked.pc = "done" => parked.result.v = FoldYears(store, CodeYears)
    /\ (pc = "done" /\ parked.pc = "done") => result = parked.result

\* the two passes returned after their steps were interleaved: each gave
\* its message for 2023 before either gave its message for 2025
C21_Witness ==
    /\ pc = "done"
    /\ parked.pc = "done"
    /\ store["2023"] = Absent
    /\ store["2024"] = Parsed(PyMap(TestDoc2024))
    /\ store["2025"] = Corrupt
    /\ diag = << [kind |-> "not found", year |-> "2023"],
                 [kind |-> "not found", year |-> "2023"],
                 [kind |-> "parse error", year |-> "2025"],
                 [kind |-> "parse error", year |-> "2025"] >>
    /\ result.v.total_participants = 98
    /\ parked.result.v.total_participants = 98

\* the calls a script run has made once calculate_metrics has returned: the
\* aggregator, then the loader for 2023, for 2024 and for 2025
BannerCalls ==
    << CallOf("calculate_metrics", ""), CallOf("load_year_data", "2023"),
       CallOf("load_year_data", "2024"), CallOf("load_year_data", "2025") >>

\* the calls of calculate_metrics among calls
AggregatorCalls ==
    {i \in 1..Len(calls) : calls[i].fn = "calculate_metrics"}

\* C22: in every render cycle (one execution of main) the aggregator is
\* invoked exactly once, by the impact banner and before any per-year
\* detail is rendered, and within that invocation the loader is asked for
\* each of the years 2023, 2024 and 2025 exactly once, in that order.
C22_OncePerCycle ==
    /\ Cardinality(AggregatorCalls) <= 1
    /\ render.mpc # "banner" => Cardinality(AggregatorCalls) = 1
    /\ pc \notin {"idle", "done", "raised"} =>
          (render.mpc = "banner" /\ render.shown = <<>>)
    /\ render.shown # <<>> => pc = "done"
    /\ pc = "for_year" => calls = SubSeq(BannerCalls, 1, yi)
    /\ pc = "done" =>
          (Len(calls) >= 4 /\ SubSeq(calls, 1, 4) = BannerCalls)

\* a script run that a click started is over: the aggregator was called
\* once, first, the loader then asked for the three years, and the
\* overview of 2024 was rendered after that with its own five loads
C22_Witness ==
    /\ render.mpc = "end"
    /\ render.click = [selected_year |-> "2024",
                       selected_section |-> "overview"]
    /\ render.shown # <<>>
    /\ Len(calls) = 9
    /\ SubSeq(calls, 1, 4) = BannerCalls
    /\ Cardinality(AggregatorCalls) = 1

\* a call of create_image_placeholder with no existing image has returned
PlaceholderReturned ==
    /\ util.fn = "create_image_placeholder"
    /\ util.pc = "returned"
    /\ util.image # "exists"

\* C23: create_image_placeholder called with no existing image returns the
\* placeholder markup as a string that contains the given description, for
\* side "below" and for any other side; for a side placement the returned
\* markup also contains "inline-block".
C23_PlaceholderString ==
    PlaceholderReturned =>
        /\ util.ret.t = "str"
        /\ PyStrContains(util.description, util.ret.v)
        /\ util.side # "below" => PyStrContains(InlineBlock, util.ret.v)

\* the call of create_course_completion_chart has returned
ChartReturned ==
    /\ util.fn = "create_course_completion_chart"
    /\ util.pc = "returned"

\* C24: in the figure built by create_course_completion_chart the Completed
\* bar comes first and the Total Participants bar second, the two have a
\* value for each track, and for each track index i completed[i] <=
\* total[i].
C24_CompletedWithinTotal ==
    ChartReturned =>
        LET completed == util.ret.data[1]
            total == util.ret.data[2]
        IN  /\ Len(util.ret.data) = 2
            /\ completed.name = "Completed"
            /\ total.name = "Total Participants"
            /\ Len(completed.y) = Len(total.y)
            /\ \A i \in 1..Len(completed.y) : completed.y[i] <= total.y[i]

\* the figure was built: 20 of 39 and 54 of 92 completed
C24_Witness ==
    /\ ChartReturned
    /\ util.ret.data[1].y = <<20, 54>>
    /\ util.ret.data[2].y = <<39, 92>>

\* a script run has come to its end in which a click on a sidebar button
\* changed the selection st.session_state had
ClickChangedSelection ==
    /\ render.mpc = "end"
    /\ render.click # NoTarget
    /\ render.click # render.before

\* C25: in a render cycle where a click on a sidebar button changes the
\* selected year or the selected section, main calls st.rerun after it has
\* displayed the content.
C25_RerunOnChange ==
    ClickChangedSelection => render.rerun

\* the selection is a pair the display function of its year has a branch
\* for
CanDisplay(n) ==
    /\ n.selected_year \in YearIds
    /\ n.selected_section \in Displayable(n.selected_year)

\* C26: the selection starts as (2025, overview): the script run that finds
\* no selection in st.session_state leaves the sidebar with that pair; after
\* any clicks on sidebar buttons the pair (selected_year, selected_section)
\* is one the display function of the selected year has a branch for; and a
\* click sets year and section together: a step that changes the selection
\* a script run found sets both to the pair of the button that was clicked.
C26_Navigation ==
    /\ [](nav # NoTarget => CanDisplay(nav))
    /\ []((render.mpc = "select" /\ render.before = NoTarget
              /\ render.click = NoTarget) => nav = InitNav)
    /\ [][(nav' # nav /\ nav # NoTarget) =>
              (render.click # NoTarget /\ nav' = render.click)]_vars

\* a click on "Deep Learning IndabaX" of 2023 has changed both the year and
\* the section of the selection (2025, overview) the session started with
C26_Witness ==
    /\ render.mpc = "select"
    /\ render.before = InitNav
    /\ render.click = [selected_year |-> "2023",
                       selected_section |-> "dl_indabax"]
    /\ nav = render.click

\* the script run has come to the dispatch of lines 950-955 and through it
Dispatched ==
    render.mpc \in {"check", "end"}

\* C27: in every script run that comes to the dispatch, the content
\* displayed is that of the selection as it stands after the click of the
\* same run was processed: exactly one of display_2025_content,
\* display_2024_content and display_2023_content is called, the one of
\* selected_year, with selected_section as its argument; the run that
\* receives a click shows the pair of the button clicked, not the selection
\* the run found.
C27_ShowsSelection ==
    /\ Len(render.shown) <= 1
    /\ render.shown # <<>> =>
          render.shown = <<[fn |-> DisplayFn(nav.selected_year),
                            arg |-> nav.selected_section]>>
    /\ Dispatched => Len(render.shown) = 1
    /\ (Dispatched /\ render.click # NoTarget) =>
          render.shown = <<[fn |-> DisplayFn(render.click.selected_year),
                            arg |-> render.click.selected_section]>>

\* the run that received the click on "Courses" of 2024, in a session whose
\* selection was (2025, overview), has shown the courses of 2024
C27_Witness ==
    /\ render.mpc = "end"
    /\ render.before = InitNav
    /\ render.click = [selected_year |-> "2024",
                       selected_section |-> "courses"]
    /\ render.shown = <<[fn |-> "display_2024_content", arg |-> "courses"]>>

====
